---- MODULE Spec2Model ----
(***************************************************************************)
(* NHL play-by-play scraper: the presence resolver and event enrichment of *)
(* nhl_ice_players_parser.py and the 5v5 Corsi aggregation of              *)
(* player_corsi_analysis.py.                                               *)
(*                                                                         *)
(* Spec      : combine_pbp_with_shifts, one action per statement group and *)
(*             one action per iteration of its loop over the plays.        *)
(* SpecCorsi : analyze_player_corsi_5v5 run on the file that               *)
(*             combine_pbp_with_shifts produced.                           *)
(* SpecFetch : one call of fetch_nhl_data or fetch_shift_data.             *)
(*                                                                         *)
(* Encodings.  A clock string is the sequence of its ':'-separated fields  *)
(* (what str.split(':') returns); NoText is the missing string.  NaN is    *)
(* the missing number of a numeric column.  A raised exception moves pc to *)
(* "error", which no action leaves.                                        *)
(***************************************************************************)
EXTENDS Integers, Sequences, FiniteSets, TLC

VARIABLES plays, shift_data, pbp_df, home_team, away_team, idx, pc,
          corsi_events, player_stats, ev, results, corsi_df,
          fetcher, max_retries, attempt, requests, slept, ret

vars == <<plays, shift_data, pbp_df, home_team, away_team, idx, pc,
          corsi_events, player_stats, ev, results, corsi_df,
          fetcher, max_retries, attempt, requests, slept, ret>>

enrichVars == <<plays, shift_data, pbp_df, home_team, away_team, idx>>
corsiVars == <<corsi_events, player_stats, ev, results, corsi_df>>
fetchVars == <<fetcher, max_retries, attempt, requests, slept, ret>>

----------------------------------------------------------------------------
(* Bounds of the model.                                                    *)

MaxShifts == 2
MaxPlays == 2
MaxEvents == 3
MaxRetries == 4

----------------------------------------------------------------------------
(* Values.                                                                 *)

NaN == -1
NoText == <<>>
NoTeam == "-"

isna(x) == x = NaN

isnaText(s) == s = NoText

GOAL == 505
SHOT_ON_GOAL == 506
MISSED_SHOT == 507
BLOCKED_SHOT == 508
FullStrength == 1551
FullSide == 6

\* int(field): defined on the numeric fields, ValueError on the others.
IntOf == [f \in {"00", "01", "30", "45", "0100"} |->
            CASE f = "00" -> 0
              [] f = "01" -> 1
              [] f = "30" -> 30
              [] f = "45" -> 45
              [] f = "0100" -> 100]

IsNumeric(f) == f \in DOMAIN IntOf

PyNone == [tag |-> "None", val |-> 0]
PyInt(n) == [tag |-> "int", val |-> n]
PyValueError == [tag |-> "ValueError", val |-> 0]

\* convert_time_to_seconds: None for a missing string or a string that does
\* not split into two fields, ValueError from int() on a non-numeric field.
convert_time_to_seconds(time_str) ==
    IF isnaText(time_str) THEN PyNone
    ELSE IF Len(time_str) = 2
         THEN IF IsNumeric(time_str[1]) /\ IsNumeric(time_str[2])
              THEN PyInt(IntOf[time_str[1]] * 60 + IntOf[time_str[2]])
              ELSE PyValueError
         ELSE PyNone

\* The goal-marker test of line 114.
IsGoalMarkerOff(shift) == FALSE

IsGoalMarker(shift) == shift.typeCode = GOAL

\* The two comparisons of line 120 on integers.
StartsAtOrBefore(start_seconds, time_seconds) == start_seconds <= time_seconds

StartsBefore(start_seconds, time_seconds) == start_seconds < time_seconds

EndsAtOrAfter(time_seconds, end_seconds) == time_seconds <= end_seconds

\* start < t <= end as Python evaluates it on the converted values: "raise"
\* when int() failed (lines 117-118) or when an operand that is compared is
\* None (the right comparison is not evaluated when the left one is false).
Compare(start, t, end) ==
    IF start.tag = "ValueError" \/ end.tag = "ValueError" THEN "raise"
    ELSE IF start.tag = "None" \/ t.tag = "None" THEN "raise"
    ELSE IF ~StartsBefore(start.val, t.val) THEN "no"
    ELSE IF end.tag = "None" THEN "raise"
    ELSE IF EndsAtOrAfter(t.val, end.val) THEN "yes" ELSE "no"

Ok(list) == [tag |-> "ok", list |-> list]
Raise == [tag |-> "raise", list |-> <<>>]

\* The loop of lines 112-121 over the rows left by the period and team
\* filters, from row k on, appending to players_on_ice.
RECURSIVE ScanShifts(_, _, _, _)
ScanShifts(period_shifts, k, time_seconds, players_on_ice) ==
    IF k > Len(period_shifts) THEN Ok(players_on_ice)
    ELSE LET shift == period_shifts[k] IN
         IF IsGoalMarker(shift)
         THEN ScanShifts(period_shifts, k + 1, time_seconds, players_on_ice)
         ELSE LET c == Compare(convert_time_to_seconds(shift.startTime),
                               time_seconds,
                               convert_time_to_seconds(shift.endTime))
              IN  IF c = "raise" THEN Raise
                  ELSE ScanShifts(period_shifts, k + 1, time_seconds,
                                  IF c = "yes"
                                  THEN Append(players_on_ice, shift.playerId)
                                  ELSE players_on_ice)

get_players_on_ice(shifts_df, period, time_in_period, team) ==
    LET time_seconds == convert_time_to_seconds(time_in_period)
        period_shifts ==
            SelectSeq(shifts_df,
                      LAMBDA s : s.period = period /\ s.teamAbbrev = team)
    IN  IF time_seconds.tag = "ValueError" THEN Raise
        ELSE ScanShifts(period_shifts, 1, time_seconds, <<>>)

\* Series.unique(): the values in order of first appearance; seen holds
\* those of s[1..k-1].
RECURSIVE UniqueFrom(_, _, _)
UniqueFrom(s, k, seen) ==
    IF k > Len(s) THEN seen
    ELSE UniqueFrom(s, k + 1,
                    IF \E i \in 1..Len(seen) : seen[i] = s[k]
                    THEN seen ELSE Append(seen, s[k]))

unique(s) == UniqueFrom(s, 1, <<>>)

TeamColumn(shifts_df) == [i \in 1..Len(shifts_df) |-> shifts_df[i].teamAbbrev]

\* The cell of an on-ice column: None, or str(list).
NoneCell == [tag |-> "None", list |-> <<>>]
str(list) == [tag |-> "str", list |-> list]

\* A row of pbp_df after lines 142-145.
AddColumns(play) ==
    [typeCode |-> play.typeCode,
     situationCode |-> play.situationCode,
     shootingPlayerId |-> play.shootingPlayerId,
     periodNumber |-> play.periodNumber,
     timeInPeriod |-> play.timeInPeriod,
     homePlayersOnIce |-> NoneCell,
     awayPlayersOnIce |-> NoneCell,
     homePlayersCount |-> 0,
     awayPlayersCount |-> 0]

SetHome(row, home_players) ==
    [row EXCEPT !.homePlayersOnIce = str(home_players),
                !.homePlayersCount = Len(home_players)]

SetAwayNoCount(row, away_players) ==
    [row EXCEPT !.awayPlayersOnIce = str(away_players)]

SetAway(row, away_players) ==
    [row EXCEPT !.awayPlayersOnIce = str(away_players),
                !.awayPlayersCount = Len(away_players)]

\* pbp_df.at[idx, column] = value, for the columns of one side.
atEnlarge(df, i, row) == Append(df, row)

at(df, i, row) == [df EXCEPT ![i] = row]

\* The body of the loop of lines 152-164 for the row at i: "continue"
\* (line 154), "raise" (an exception left get_players_on_ice; the home
\* columns are already written when the away query raises) or "ok".
EnrichPlay(shifts_df, home, away, df, i) ==
    LET play == df[i]
        home_players == get_players_on_ice(shifts_df, play.periodNumber,
                                           play.timeInPeriod, home)
        away_players == get_players_on_ice(shifts_df, play.periodNumber,
                                           play.timeInPeriod, away)
        df1 == at(df, i, SetHome(play, home_players.list))
    IN  IF isnaText(play.timeInPeriod) \/ isna(play.periodNumber)
        THEN [tag |-> "continue", df |-> df]
        ELSE IF home_players.tag = "raise"
        THEN [tag |-> "raise", df |-> df]
        ELSE IF away_players.tag = "raise"
        THEN [tag |-> "raise", df |-> df1]
        ELSE [tag |-> "ok", df |-> at(df1, i, SetAway(df1[i], away_players.list))]

\* The event fields of a row, as the API delivered them.
PlayOf(row) ==
    [typeCode |-> row.typeCode,
     situationCode |-> row.situationCode,
     shootingPlayerId |-> row.shootingPlayerId,
     periodNumber |-> row.periodNumber,
     timeInPeriod |-> row.timeInPeriod]

----------------------------------------------------------------------------
(* Inputs of combine_pbp_with_shifts.                                      *)

\* Type code 517 is a shift, 502 a faceoff; situation code 1451 is a power
\* play.
Clock(m, s) == <<m, s>>

ShiftRow(p, team, type, start, end) ==
    [playerId |-> p, teamAbbrev |-> team, period |-> 1, typeCode |-> type,
     startTime |-> start, endTime |-> end]

ShiftRows ==
    { ShiftRow(1, "TOR", 517, Clock("00", "00"), Clock("01", "00")),
      ShiftRow(1, "TOR", 517, Clock("00", "30"), Clock("01", "00")),
      ShiftRow(1, "TOR", GOAL, Clock("00", "00"), Clock("01", "00")),
      ShiftRow(2, "MTL", 517, Clock("00", "00"), Clock("01", "00")),
      ShiftRow(2, "MTL", GOAL, Clock("00", "30"), Clock("01", "00")) }

Play(period, time, type, sit, shooter) ==
    [typeCode |-> type, situationCode |-> sit, shootingPlayerId |-> shooter,
     periodNumber |-> period, timeInPeriod |-> time]

Plays ==
    { Play(1, Clock("00", "00"), 502, FullStrength, NaN),
      Play(1, Clock("00", "30"), SHOT_ON_GOAL, FullStrength, 1),
      Play(1, Clock("01", "00"), MISSED_SHOT, FullStrength, 2),
      Play(1, Clock("01", "01"), BLOCKED_SHOT, FullStrength, 1),
      Play(2, Clock("00", "30"), SHOT_ON_GOAL, FullStrength, 2),
      Play(NaN, Clock("00", "30"), 502, FullStrength, NaN),
      Play(1, NoText, 502, FullStrength, NaN),
      Play(1, <<"0100">>, SHOT_ON_GOAL, FullStrength, 1),
      Play(1, Clock("xx", "30"), SHOT_ON_GOAL, FullStrength, 1) }

SeqsUpTo(S, n) == UNION { [1..k -> S] : k \in 0..n }

----------------------------------------------------------------------------
(* combine_pbp_with_shifts.                                                *)

\* A JSON object with or without the key 'data', a JSON array, and the
\* value of a name that holds no JSON value.
Dict(has_data, data) == [kind |-> "dict", has_data |-> has_data, data |-> data]

List(data) == [kind |-> "list", has_data |-> FALSE, data |-> data]

NoJson == [kind |-> "none", has_data |-> FALSE, data |-> <<>>]

\* No fetch is running.
FetchIdle ==
    /\ fetcher = "none"
    /\ max_retries = 0
    /\ attempt = 0
    /\ requests = <<>>
    /\ slept = <<>>
    /\ ret = [tag |-> "pending", val |-> NoJson]

CorsiIdle ==
    /\ corsi_events = <<>>
    /\ player_stats = <<>>
    /\ ev = 0
    /\ results = <<>>
    /\ corsi_df = <<>>

\* After parse_play_by_play and fetch_shift_data returned (lines 128-139).
Init ==
    /\ plays \in SeqsUpTo(Plays, MaxPlays)
    /\ shift_data \in SeqsUpTo(ShiftRows, MaxShifts)
    /\ pbp_df = plays
    /\ home_team = NoTeam
    /\ away_team = NoTeam
    /\ idx = 0
    /\ pc = "columns"
    /\ CorsiIdle
    /\ FetchIdle

\* Lines 142-145.
AddPlayerColumns ==
    /\ pc = "columns"
    /\ pbp_df' = [k \in 1..Len(pbp_df) |-> AddColumns(pbp_df[k])]
    /\ pc' = "teams"
    /\ UNCHANGED <<plays, shift_data, home_team, away_team, idx, corsiVars,
                   fetchVars>>

\* Lines 148-149: KeyError on a frame without rows (it has no columns),
\* IndexError when fewer than two teams appear.
GetTeams ==
    /\ pc = "teams"
    /\ LET teams == unique(TeamColumn(shift_data)) IN
       IF Len(teams) >= 2
       THEN /\ home_team' = teams[1]
            /\ away_team' = teams[2]
            /\ idx' = 1
            /\ pc' = "loop"
       ELSE /\ pc' = "error"
            /\ UNCHANGED <<home_team, away_team, idx>>
    /\ UNCHANGED <<plays, shift_data, pbp_df, corsiVars, fetchVars>>

\* One iteration of the loop of lines 152-164.
ProcessPlay ==
    /\ pc = "loop"
    /\ idx <= Len(pbp_df)
    /\ LET r == EnrichPlay(shift_data, home_team, away_team, pbp_df, idx)
       IN  CASE r.tag = "continue" ->
                  /\ idx' = idx + 1
                  /\ UNCHANGED <<pbp_df, pc>>
             [] r.tag = "raise" ->
                  /\ pbp_df' = r.df
                  /\ pc' = "error"
                  /\ UNCHANGED idx
             [] r.tag = "ok" ->
                  /\ pbp_df' = r.df
                  /\ idx' = idx + 1
                  /\ UNCHANGED pc
    /\ UNCHANGED <<plays, shift_data, home_team, away_team, corsiVars,
                   fetchVars>>

\* Line 166.
Return ==
    /\ pc = "loop"
    /\ idx > Len(pbp_df)
    /\ pc' = "done"
    /\ UNCHANGED <<enrichVars, corsiVars, fetchVars>>

Next == AddPlayerColumns \/ GetTeams \/ ProcessPlay \/ Return

Spec == Init /\ [][Next]_vars

----------------------------------------------------------------------------
(* The file analyze_player_corsi_5v5 reads: what main() of                 *)
(* nhl_ice_players_parser.py wrote for one game.                           *)

\* combine_pbp_with_shifts as a function of its two inputs, for a run that
\* returns: every row of the frame of lines 142-145 after its iteration of
\* the loop of lines 152-164 (an iteration writes its own row only).
combine_pbp_with_shifts(shifts, events) ==
    LET teams == unique(TeamColumn(shifts))
        df == [k \in 1..Len(events) |-> AddColumns(events[k])]
    IN  [k \in 1..Len(events) |->
            EnrichPlay(shifts, teams[1], teams[2], df, k).df[k]]

\* DataFrame.to_csv then pandas.read_csv on an on-ice cell: None is written
\* as an empty field and read back as the float NaN; str(list) is read back
\* as the same text.
NaNCell == [tag |-> "nan", list |-> <<>>]

csv_cell(cell) == IF cell.tag = "None" THEN NaNCell ELSE cell

read_csv(df) ==
    [k \in 1..Len(df) |->
        [df[k] EXCEPT !.homePlayersOnIce = csv_cell(@),
                      !.awayPlayersOnIce = csv_cell(@)]]

\* One period of one game: five TOR players and six MTL players on from
\* 0:00 to 1:00, TOR 6 on from 0:00 to 0:30, a second row for TOR 1 that
\* overlaps its first one (0:45 to 1:30), and a goal pseudo-row for TOR 13.
GameShifts ==
    << ShiftRow(1, "TOR", 517, Clock("00", "00"), Clock("01", "00")),
       ShiftRow(2, "TOR", 517, Clock("00", "00"), Clock("01", "00")),
       ShiftRow(3, "TOR", 517, Clock("00", "00"), Clock("01", "00")),
       ShiftRow(4, "TOR", 517, Clock("00", "00"), Clock("01", "00")),
       ShiftRow(5, "TOR", 517, Clock("00", "00"), Clock("01", "00")),
       ShiftRow(6, "TOR", 517, Clock("00", "00"), Clock("00", "30")),
       ShiftRow(7, "MTL", 517, Clock("00", "00"), Clock("01", "00")),
       ShiftRow(8, "MTL", 517, Clock("00", "00"), Clock("01", "00")),
       ShiftRow(9, "MTL", 517, Clock("00", "00"), Clock("01", "00")),
       ShiftRow(10, "MTL", 517, Clock("00", "00"), Clock("01", "00")),
       ShiftRow(11, "MTL", 517, Clock("00", "00"), Clock("01", "00")),
       ShiftRow(12, "MTL", 517, Clock("00", "00"), Clock("01", "00")),
       ShiftRow(1, "TOR", 517, Clock("00", "45"), Clock("01", "30")),
       ShiftRow(13, "TOR", GOAL, Clock("00", "00"), Clock("01", "00")) >>

CorsiPlays ==
    { Play(1, Clock("00", "30"), SHOT_ON_GOAL, FullStrength, 1),
      Play(1, Clock("00", "30"), MISSED_SHOT, FullStrength, 7),
      Play(1, Clock("00", "30"), GOAL, FullStrength, NaN),
      Play(1, Clock("00", "30"), BLOCKED_SHOT, FullStrength, 13),
      Play(1, Clock("00", "30"), 502, FullStrength, 1),
      Play(1, Clock("00", "30"), SHOT_ON_GOAL, 1451, 1),
      Play(1, Clock("00", "45"), SHOT_ON_GOAL, FullStrength, 1),
      Play(1, Clock("01", "00"), SHOT_ON_GOAL, FullStrength, 8),
      Play(1, NoText, SHOT_ON_GOAL, FullStrength, 1) }

----------------------------------------------------------------------------
(* analyze_player_corsi_5v5.                                               *)

shot_attempt_events == {GOAL, SHOT_ON_GOAL, MISSED_SHOT, BLOCKED_SHOT}

\* The boolean mask of lines 35-40 on one row.
MaskNoCounts(row) ==
    /\ row.typeCode \in shot_attempt_events
    /\ row.situationCode = FullStrength

Mask(row) ==
    /\ row.typeCode \in shot_attempt_events
    /\ row.situationCode = FullStrength
    /\ row.homePlayersCount = FullSide
    /\ row.awayPlayersCount = FullSide

\* pbp_df[mask]: the index labels of the rows kept, in order.
RECURSIVE Masked(_, _)
Masked(df, k) ==
    IF k > Len(df) THEN <<>>
    ELSE IF Mask(df[k]) THEN <<k>> \o Masked(df, k + 1) ELSE Masked(df, k + 1)

\* x in list.
In(x, list) == \E i \in 1..Len(list) : list[i] = x

\* Lines 50-62 once both cells are lists: 'home', 'away' or None.
shooting_team_else(event, home_players, away_players) ==
    IF isna(event.shootingPlayerId) THEN "None"
    ELSE IF In(event.shootingPlayerId, home_players) THEN "home"
    ELSE "away"

shooting_team(event, home_players, away_players) ==
    IF isna(event.shootingPlayerId) THEN "None"
    ELSE IF In(event.shootingPlayerId, home_players) THEN "home"
    ELSE IF In(event.shootingPlayerId, away_players) THEN "away"
    ELSE "None"

\* player_stats is the dict in insertion order: a sequence of entries.
Has(stats, player_id) == \E i \in 1..Len(stats) : stats[i].playerId = player_id

\* Lines 70-75 and 87-92.
EnsureReset(stats, player_id) ==
    IF Has(stats, player_id)
    THEN [i \in 1..Len(stats) |->
            IF stats[i].playerId = player_id
            THEN [playerId |-> player_id, CF |-> 0, CA |-> 0,
                  TOI_events |-> 0]
            ELSE stats[i]]
    ELSE Append(stats, [playerId |-> player_id, CF |-> 0, CA |-> 0,
                        TOI_events |-> 0])

Ensure(stats, player_id) ==
    IF Has(stats, player_id) THEN stats
    ELSE Append(stats, [playerId |-> player_id, CF |-> 0, CA |-> 0,
                        TOI_events |-> 0])

\* Lines 78-83 and 95-100 for one player: for_ says whether the player's
\* side is the shooting side.
CreditToiOnlyFor(stats, player_id, for_) ==
    [i \in 1..Len(stats) |->
        IF stats[i].playerId # player_id THEN stats[i]
        ELSE IF for_
             THEN [stats[i] EXCEPT !.CF = @ + 1, !.TOI_events = @ + 1]
             ELSE [stats[i] EXCEPT !.CA = @ + 1]]

Credit(stats, player_id, for_) ==
    [i \in 1..Len(stats) |->
        IF stats[i].playerId # player_id THEN stats[i]
        ELSE IF for_
             THEN [stats[i] EXCEPT !.CF = @ + 1, !.TOI_events = @ + 1]
             ELSE [stats[i] EXCEPT !.CA = @ + 1, !.TOI_events = @ + 1]]

\* The loops of lines 69-83 and 86-100 over one side's list, from k on.
RECURSIVE CreditSide(_, _, _, _)
CreditSide(stats, players, k, for_) ==
    IF k > Len(players) THEN stats
    ELSE CreditSide(Credit(Ensure(stats, players[k]), players[k], for_),
                    players, k + 1, for_)

\* The body of the loop of lines 48-100 for one event: the new player_stats,
\* or "raise" when 'in' or 'for' is applied to a cell that is not a list
\* (TypeError on the float NaN).
ProcessEventBody(stats, event) ==
    LET shooter_id == event.shootingPlayerId
        home_cell == event.homePlayersOnIce
        away_cell == event.awayPlayersOnIce
    IN  IF isna(shooter_id) THEN [tag |-> "continue", stats |-> stats]
        ELSE IF home_cell.tag # "str" THEN [tag |-> "raise", stats |-> stats]
        ELSE IF away_cell.tag # "str"
        THEN [tag |-> "raise",
              stats |-> IF In(shooter_id, home_cell.list)
                        THEN CreditSide(stats, home_cell.list, 1, TRUE)
                        ELSE stats]
        ELSE LET team == shooting_team(event, home_cell.list, away_cell.list)
             IN  IF team = "None" THEN [tag |-> "continue", stats |-> stats]
                 ELSE [tag |-> "ok",
                       stats |-> CreditSide(
                                   CreditSide(stats, home_cell.list, 1,
                                              team = "home"),
                                   away_cell.list, 1, team = "away")]

\* The loop of lines 48-100 over a sequence of events from k on, started
\* with stats: the player_stats it ends with (the player_stats at the
\* raise when an event raises).
RECURSIVE accumulate(_, _, _)
accumulate(events, k, stats) ==
    IF k > Len(events) THEN stats
    ELSE LET r == ProcessEventBody(stats, events[k])
         IN  IF r.tag = "raise" THEN r.stats
             ELSE accumulate(events, k + 1, r.stats)

\* The rows that read_csv returns for the plays of CorsiPlays (an iteration
\* of the enrichment loop reads and writes its own row only).
FileRows ==
    { read_csv(combine_pbp_with_shifts(GameShifts, <<play>>))[1] :
        play \in CorsiPlays }

\* After read_csv (line 24): pbp_df is
\* read_csv(combine_pbp_with_shifts(GameShifts, plays)).
InitCorsi ==
    /\ pbp_df \in SeqsUpTo(FileRows, MaxEvents)
    /\ plays = [k \in 1..Len(pbp_df) |-> PlayOf(pbp_df[k])]
    /\ shift_data = GameShifts
    /\ home_team = unique(TeamColumn(GameShifts))[1]
    /\ away_team = unique(TeamColumn(GameShifts))[2]
    /\ idx = Len(plays) + 1
    /\ pc = "filter"
    /\ FetchIdle
    /\ corsi_events = <<>>
    /\ player_stats = <<>>
    /\ ev = 0
    /\ results = <<>>
    /\ corsi_df = <<>>

\* Lines 28-45.
FilterEvents ==
    /\ pc = "filter"
    /\ corsi_events' = Masked(pbp_df, 1)
    /\ player_stats' = <<>>
    /\ ev' = 1
    /\ pc' = "aggregate"
    /\ UNCHANGED <<fetchVars, enrichVars, results, corsi_df>>

\* One iteration of the loop of lines 48-100.
ProcessEvent ==
    /\ pc = "aggregate"
    /\ ev <= Len(corsi_events)
    /\ LET r == ProcessEventBody(player_stats, pbp_df[corsi_events[ev]])
       IN  /\ player_stats' = r.stats
           /\ IF r.tag = "raise"
              THEN pc' = "error" /\ UNCHANGED ev
              ELSE ev' = ev + 1 /\ UNCHANGED pc
    /\ UNCHANGED <<fetchVars, enrichVars, corsi_events, results, corsi_df>>

\* The loop of lines 48-100 is over.
EndOfEvents ==
    /\ pc = "aggregate"
    /\ ev > Len(corsi_events)
    /\ pc' = "aggregated"
    /\ UNCHANGED <<enrichVars, corsiVars, fetchVars>>

\* player_dict[player_id]['team'] (create_player_dictionary_from_shifts,
\* groupby('playerId') with 'first'): the team of the player's first shift
\* row, NoTeam for a player without rows.
team_info(shifts, player_id) ==
    IF \E i \in 1..Len(shifts) : shifts[i].playerId = player_id
    THEN LET i == CHOOSE i \in 1..Len(shifts) :
                    /\ shifts[i].playerId = player_id
                    /\ \A j \in 1..(i - 1) : shifts[j].playerId # player_id
         IN  shifts[i].teamAbbrev
    ELSE NoTeam

\* round(num / den) to the nearest integer, a tie to the even one (the
\* rounding of Python's round and of Series.round on the exact quotient).
RoundHalfEven(num, den) ==
    LET q == num \div den
        r == num % den
    IN  IF 2 * r < den THEN q
        ELSE IF 2 * r > den THEN q + 1
        ELSE IF q % 2 = 0 THEN q ELSE q + 1

\* Lines 110-112 and 123: round(corsi_pct, 1), in tenths of a percent.
Corsi_pctTruncated(cf, ca) ==
    IF cf + ca > 0 THEN (cf * 1000) \div (cf + ca) ELSE 0

Corsi_pct(cf, ca) ==
    IF cf + ca > 0 THEN RoundHalfEven(cf * 1000, cf + ca) ELSE 0

\* Lines 117-125: the record appended for one player (playerName is a
\* label looked up in the player dictionary; the rows of the model carry
\* no names).
ResultRow(stats) ==
    [playerId |-> stats.playerId,
     CF |-> stats.CF,
     CA |-> stats.CA,
     CF_plus_CA |-> stats.CF + stats.CA,
     Corsi_pct |-> Corsi_pct(stats.CF, stats.CA),
     TOI_events |-> stats.TOI_events]

\* Line 131, the order of sort_values(ascending=False): row a stays before
\* a later row b.
PrecedesAscending(a, b) == a.Corsi_pct <= b.Corsi_pct

Precedes(a, b) == a.Corsi_pct >= b.Corsi_pct

\* row put behind the last row of sorted that stays before it.
RECURSIVE InsertSorted(_, _)
InsertSorted(sorted, row) ==
    IF sorted = <<>> THEN <<row>>
    ELSE IF Precedes(sorted[Len(sorted)], row) THEN Append(sorted, row)
    ELSE Append(InsertSorted(SubSeq(sorted, 1, Len(sorted) - 1), row),
                sorted[Len(sorted)])

\* The rows from k on sorted into sorted, ties in their order in rows.
RECURSIVE SortFrom(_, _, _)
SortFrom(rows, k, sorted) ==
    IF k > Len(rows) THEN sorted
    ELSE SortFrom(rows, k + 1, InsertSorted(sorted, rows[k]))

Exchange(rows, i) ==
    [k \in 1..Len(rows) |->
        IF k = i THEN rows[i + 1] ELSE IF k = i + 1 THEN rows[i] ELSE rows[k]]

\* Line 131: sort_values('Corsi_pct', ascending=False) with the default
\* kind='quicksort', which keeps no order among rows of equal Corsi_pct.
\* The outcomes: the rows in descending order with ties in their order in
\* rows, or that order with one pair of neighbours of equal Corsi_pct
\* exchanged.
sort_values(rows) ==
    LET sorted == SortFrom(rows, 1, <<>>)
    IN  {sorted} \cup
          {Exchange(sorted, i) :
             i \in {j \in 1..(Len(sorted) - 1) :
                      sorted[j].Corsi_pct = sorted[j + 1].Corsi_pct}}

\* Lines 142-143: groupby('team')['Corsi_pct'].mean() for one team, as the
\* pair of the sum and the number of rows.
RECURSIVE TeamSum(_, _, _)
TeamSum(rows, team, k) ==
    IF k > Len(rows) THEN [sum |-> 0, n |-> 0]
    ELSE LET rest == TeamSum(rows, team, k + 1)
         IN  IF team_info(GameShifts, rows[k].playerId) = team
             THEN [sum |-> rest.sum + rows[k].Corsi_pct, n |-> rest.n + 1]
             ELSE rest

\* Lines 135-148 on one row: the team of the player dictionary and
\* Corsi_rel = round(Corsi_pct - team_avg_corsi, 1) in tenths, NaN for a
\* player the dictionary does not know.
WithTeam(rows, row) ==
    LET team == team_info(GameShifts, row.playerId)
        avg == TeamSum(rows, team, 1)
    IN  [playerId |-> row.playerId,
         team |-> team,
         CF |-> row.CF,
         CA |-> row.CA,
         CF_plus_CA |-> row.CF_plus_CA,
         Corsi_pct |-> row.Corsi_pct,
         Corsi_rel |-> IF team = NoTeam THEN [tag |-> "nan", tenths |-> 0]
                       ELSE [tag |-> "float",
                             tenths |-> RoundHalfEven(
                                          row.Corsi_pct * avg.n - avg.sum,
                                          avg.n)],
         TOI_events |-> row.TOI_events]

\* Lines 102-125: one record per player, in the order of player_stats.
Finalize ==
    /\ pc = "aggregated"
    /\ results' = [i \in 1..Len(player_stats) |-> ResultRow(player_stats[i])]
    /\ pc' = "finalized"
    /\ UNCHANGED <<fetchVars, enrichVars, corsi_events, player_stats, ev,
                   corsi_df>>

\* Lines 127-150: the frame of the records sorted, labelled with teams and
\* returned.  Without records the frame has no column and sort_values
\* raises KeyError.
BuildFrame ==
    /\ pc = "finalized"
    /\ IF results = <<>>
       THEN pc' = "error" /\ UNCHANGED corsi_df
       ELSE /\ \E sorted \in sort_values(results) :
                 corsi_df' = [i \in 1..Len(sorted) |->
                                WithTeam(sorted, sorted[i])]
            /\ pc' = "returned"
    /\ UNCHANGED <<fetchVars, enrichVars, corsi_events, player_stats, ev,
                   results>>

NextCorsi ==
    FilterEvents \/ ProcessEvent \/ EndOfEvents \/ Finalize \/ BuildFrame

SpecCorsi == InitCorsi /\ [][NextCorsi]_vars

----------------------------------------------------------------------------
(* fetch_nhl_data and fetch_shift_data: the retry loop around one GET.     *)
(*                                                                         *)
(* SpecFetch : one call of either function, one action per statement group *)
(*             of the loop; every step of the call is taken (the GET has a *)
(*             timeout, the sleep is finite), which is the fairness of     *)
(*             SpecFetch.                                                  *)

\* The loop bound of fetch_shift_data.
ShiftAttempts == 3

\* The exceptions of requests that the GET or raise_for_status may raise:
\* the subclasses of ConnectionError, and other subclasses of
\* RequestException (a body that is not JSON raises one of these from
\* response.json()).
ConnectionErrors == {"ConnectionError", "ConnectTimeout"}

OtherRequestErrors == {"HTTPError", "ReadTimeout"}

\* The bodies of the responses that pass raise_for_status.
Bodies == {Dict(TRUE, <<"shift">>), Dict(TRUE, <<>>), Dict(FALSE, <<>>)}

\* What one GET comes to.
Outcomes ==
    [outcome : {"ok"}, body : Bodies]
      \cup [outcome : ConnectionErrors \cup OtherRequestErrors,
            body : {NoJson}]

\* body.get('data', []).
get_data(body) == IF body.has_data THEN List(body.data) ELSE List(<<>>)

\* The value returned from the try block: response.json() in
\* fetch_nhl_data, response.json().get('data', []) in fetch_shift_data.
Payload(f, body) == IF f = "fetch_shift_data" THEN get_data(body) ELSE body

\* range(max_retries) of fetch_nhl_data, range(3) of fetch_shift_data.
Attempts(f, retries) == IF f = "fetch_shift_data" THEN ShiftAttempts ELSE retries

\* attempt < max_retries - 1 (attempt < 2 in fetch_shift_data).
attempts_remain_always(n, limit) == n < limit

attempts_remain(n, limit) == n < limit - 1

\* A call of fetch_nhl_data with some max_retries or of fetch_shift_data.
InitFetch ==
    /\ plays = <<>>
    /\ shift_data = <<>>
    /\ pbp_df = <<>>
    /\ home_team = NoTeam
    /\ away_team = NoTeam
    /\ idx = 0
    /\ CorsiIdle
    /\ \/ fetcher = "fetch_nhl_data" /\ max_retries \in 0..MaxRetries
       \/ fetcher = "fetch_shift_data" /\ max_retries = ShiftAttempts
    /\ attempt = 0
    /\ requests = <<>>
    /\ slept = <<>>
    /\ ret = [tag |-> "pending", val |-> NoJson]
    /\ pc = "for"

\* for attempt in range(...): the next attempt or the end of the loop.
ForAttempt ==
    /\ pc = "for"
    /\ IF attempt < Attempts(fetcher, max_retries)
       THEN pc' = "try"
       ELSE pc' = "after_loop"
    /\ UNCHANGED <<enrichVars, corsiVars, fetchVars>>

\* The try block: the GET, raise_for_status and the return of the payload,
\* or an exception of requests.
Request ==
    /\ pc = "try"
    /\ \E o \in Outcomes :
         /\ requests' = Append(requests, o)
         /\ IF o.outcome = "ok"
            THEN /\ ret' = [tag |-> "value", val |-> Payload(fetcher, o.body)]
                 /\ pc' = "returned"
            ELSE /\ UNCHANGED ret
                 /\ pc' = IF o.outcome \in ConnectionErrors
                          THEN "except_ConnectionError"
                          ELSE "except_RequestException"
    /\ UNCHANGED <<enrichVars, corsiVars, fetcher, max_retries, attempt, slept>>

\* except ConnectionError: sleep 2 ** attempt while attempts remain, then
\* the next iteration.
OnConnectionError ==
    /\ pc = "except_ConnectionError"
    /\ IF attempts_remain(attempt, Attempts(fetcher, max_retries))
       THEN slept' = Append(slept, 2 ^ attempt)
       ELSE UNCHANGED slept
    /\ attempt' = attempt + 1
    /\ pc' = "for"
    /\ UNCHANGED <<enrichVars, corsiVars, fetcher, max_retries, requests, ret>>

\* except RequestException: break.
OnRequestException ==
    /\ pc = "except_RequestException"
    /\ pc' = "after_loop"
    /\ UNCHANGED <<enrichVars, corsiVars, fetchVars>>

\* return None after the loop.
ReturnNone ==
    /\ pc = "after_loop"
    /\ ret' = [tag |-> "None", val |-> NoJson]
    /\ pc' = "returned"
    /\ UNCHANGED <<enrichVars, corsiVars, fetcher, max_retries, attempt,
                   requests, slept>>

NextFetch ==
    ForAttempt \/ Request \/ OnConnectionError \/ OnRequestException
      \/ ReturnNone

SpecFetch == InitFetch /\ [][NextFetch]_vars /\ WF_vars(NextFetch)

----------------------------------------------------------------------------
(* Properties of combine_pbp_with_shifts (checked under Spec).             *)

WellFormed(clock) ==
    /\ clock # NoText
    /\ Len(clock) = 2
    /\ IsNumeric(clock[1])
    /\ IsNumeric(clock[2])

Malformed(clock) == clock # NoText /\ ~WellFormed(clock)

Seconds(clock) == IntOf[clock[1]] * 60 + IntOf[clock[2]]

PlayerIds(rows) == [i \in 1..Len(rows) |-> rows[i].playerId]

Occurrences(list, x) == Cardinality({i \in 1..Len(list) : list[i] = x})

HasColumns == pc # "columns"

\* The rows of the shift table of one team and period that are real shifts.
RealShifts(team, period) ==
    SelectSeq(shift_data,
              LAMBDA s : s.teamAbbrev = team /\ s.period = period
                         /\ s.typeCode # 505)

\* The players of the real shifts with start < t <= end, in table order.
Covering(team, period, t) ==
    PlayerIds(SelectSeq(RealShifts(team, period),
                        LAMBDA s : Seconds(s.startTime) < t
                                   /\ t <= Seconds(s.endTime)))

\* C1: every on-ice list written for an event at time t holds exactly the
\* players of the rows of the queried team and period that are not goal
\* markers and whose interval satisfies start < t <= end (left-open,
\* right-closed), one entry per such row.
C1_BoundaryRule ==
    HasColumns =>
      \A k \in 1..Len(pbp_df) :
        LET row == pbp_df[k] IN
        WellFormed(row.timeInPeriod) =>
          /\ row.homePlayersOnIce.tag = "str" =>
               row.homePlayersOnIce.list =
                 Covering(home_team, row.periodNumber,
                          Seconds(row.timeInPeriod))
          /\ row.awayPlayersOnIce.tag = "str" =>
               row.awayPlayersOnIce.list =
                 Covering(away_team, row.periodNumber,
                          Seconds(row.timeInPeriod))

\* A home row whose start second is the time of one enriched event (player
\* absent there), whose end second is the time of another (player present).
C1_Witness ==
    /\ pc = "done"
    /\ \E i \in 1..Len(shift_data) : \E k1, k2 \in 1..Len(pbp_df) :
         LET s == shift_data[i] IN
         /\ s.teamAbbrev = home_team /\ s.typeCode # 505
         /\ pbp_df[k1].periodNumber = s.period
         /\ pbp_df[k2].periodNumber = s.period
         /\ WellFormed(pbp_df[k1].timeInPeriod)
         /\ WellFormed(pbp_df[k2].timeInPeriod)
         /\ Seconds(pbp_df[k1].timeInPeriod) = Seconds(s.startTime)
         /\ Seconds(pbp_df[k2].timeInPeriod) = Seconds(s.endTime)
         /\ ~In(s.playerId, pbp_df[k1].homePlayersOnIce.list)
         /\ In(s.playerId, pbp_df[k2].homePlayersOnIce.list)

\* The goal-marker rows of one team and period whose interval covers t.
GoalRowsCovering(team, period, t) ==
    SelectSeq(shift_data,
              LAMBDA s : s.teamAbbrev = team /\ s.period = period
                         /\ s.typeCode = 505
                         /\ Seconds(s.startTime) < t
                         /\ t <= Seconds(s.endTime))

GoalRowsAddNothing(cell, team, period, t) ==
    cell.tag = "str" =>
      \A g \in 1..Len(GoalRowsCovering(team, period, t)) :
        LET p == GoalRowsCovering(team, period, t)[g].playerId IN
        Occurrences(cell.list, p) = Occurrences(Covering(team, period, t), p)

\* C2: a shift row with type code 505 whose interval covers the event time
\* adds no entry to the on-ice list of its team: its player appears there
\* only as often as real shifts of that player cover the time.
C2_GoalMarkerExcluded ==
    HasColumns =>
      \A k \in 1..Len(pbp_df) :
        LET row == pbp_df[k] IN
        WellFormed(row.timeInPeriod) =>
          /\ GoalRowsAddNothing(row.homePlayersOnIce, home_team,
                                row.periodNumber, Seconds(row.timeInPeriod))
          /\ GoalRowsAddNothing(row.awayPlayersOnIce, away_team,
                                row.periodNumber, Seconds(row.timeInPeriod))

\* An enriched event covered by a goal-marker row of the home team whose
\* player is not in the home list.
C2_Witness ==
    /\ pc = "done"
    /\ \E k \in 1..Len(pbp_df) :
         LET row == pbp_df[k] IN
         /\ WellFormed(row.timeInPeriod)
         /\ row.homePlayersOnIce.tag = "str"
         /\ LET goals == GoalRowsCovering(home_team, row.periodNumber,
                                          Seconds(row.timeInPeriod))
            IN  /\ goals # <<>>
                /\ ~In(goals[1].playerId, row.homePlayersOnIce.list)

\* C3: the data frame always has one row per input event, in input order,
\* with the event's own fields untouched.
C3_OrderPreserved ==
    /\ Len(pbp_df) = Len(plays)
    /\ \A k \in 1..Len(pbp_df) : PlayOf(pbp_df[k]) = plays[k]

\* A returned frame of two different events, one with ice context and one
\* without.
C3_Witness ==
    /\ pc = "done"
    /\ Len(plays) = 2
    /\ plays[1] # plays[2]
    /\ \E k \in 1..2 : pbp_df[k].homePlayersOnIce.tag = "str"
    /\ \E k \in 1..2 : pbp_df[k].homePlayersOnIce.tag = "None"

PlayersIn(cell) == {cell.list[i] : i \in 1..Len(cell.list)}

NoIceContext(row) ==
    /\ PlayersIn(row.homePlayersOnIce) = {}
    /\ PlayersIn(row.awayPlayersOnIce) = {}
    /\ row.homePlayersCount = 0
    /\ row.awayPlayersCount = 0

Absent(row) == isnaText(row.timeInPeriod) \/ isna(row.periodNumber)

C5_MalformedClockNotFatal ==
    \A k \in 1..Len(plays) :
      Malformed(plays[k].timeInPeriod) => ~(pc = "error" /\ idx = k)

\* C6: with no shift record the run does not abort.
C6_EmptyShiftsComplete ==
    shift_data = <<>> => pc # "error"

\* The stepwise run and the function agree on every returned frame.
RunIsFunction ==
    pc = "done" => pbp_df = combine_pbp_with_shifts(shift_data, plays)

\* The file read by the analysis is the one the enrichment run wrote.
FileIsRunOutput ==
    pc = "filter" => pbp_df = read_csv(combine_pbp_with_shifts(shift_data, plays))

----------------------------------------------------------------------------
(* Properties of analyze_player_corsi_5v5 (checked under SpecCorsi).       *)

Qualifies(row) ==
    /\ row.typeCode \in {505, 506, 507, 508}
    /\ row.situationCode = 1551
    /\ row.homePlayersCount = 6
    /\ row.awayPlayersCount = 6

Filtered == pc \in {"aggregate", "aggregated", "error"}

Processing == pc = "aggregate" /\ ev <= Len(corsi_events)

CurrentEvent == pbp_df[corsi_events[ev]]

FilterExact ==
    Filtered =>
      /\ \A k \in 1..Len(pbp_df) : In(k, corsi_events) <=> Qualifies(pbp_df[k])
      /\ \A i, j \in 1..Len(corsi_events) :
           i < j => corsi_events[i] < corsi_events[j]

\* C7: the events kept by the filter are exactly those with a shot-attempt
\* type code, situation code 1551 and counts 6 and 6, and only the step of
\* a kept event changes player_stats.
C7_SituationFilter ==
    /\ []FilterExact
    /\ [][player_stats' # player_stats =>
            Processing /\ Qualifies(CurrentEvent)]_vars

\* A finished pass that kept an event and excluded one with situation code
\* 1551 but other counts and one with counts 6 v 6 but another code.
C7_Witness ==
    /\ pc = "aggregated"
    /\ corsi_events # <<>>
    /\ player_stats # <<>>
    /\ \E k \in 1..Len(pbp_df) :
         /\ pbp_df[k].typeCode \in shot_attempt_events
         /\ pbp_df[k].situationCode = 1551
         /\ pbp_df[k].homePlayersCount # 6
         /\ ~In(k, corsi_events)
    /\ \E k \in 1..Len(pbp_df) :
         /\ pbp_df[k].typeCode \in shot_attempt_events
         /\ pbp_df[k].situationCode # 1551
         /\ pbp_df[k].homePlayersCount = 6
         /\ pbp_df[k].awayPlayersCount = 6
         /\ ~In(k, corsi_events)

ShooterAbsent(event) == isna(event.shootingPlayerId)

ShooterInNeither(event) ==
    /\ ~isna(event.shootingPlayerId)
    /\ event.shootingPlayerId \notin PlayersIn(event.homePlayersOnIce)
    /\ event.shootingPlayerId \notin PlayersIn(event.awayPlayersOnIce)

\* C8: the step of a kept event whose shooter id is absent or in neither
\* on-ice list leaves player_stats as it was and moves on to the next event.
C8_SilentSkip ==
    [][(Processing /\ (ShooterAbsent(CurrentEvent)
                        \/ ShooterInNeither(CurrentEvent)))
         => (player_stats' = player_stats /\ pc' = "aggregate"
             /\ ev' = ev + 1)]_vars

\* Players are on record, and the loop has passed a kept event without
\* shooter id and a kept event whose shooter is on neither list.
C8_Witness ==
    /\ pc = "aggregate"
    /\ player_stats # <<>>
    /\ \E i \in 1..(ev - 1) : ShooterAbsent(pbp_df[corsi_events[i]])
    /\ \E i \in 1..(ev - 1) : ShooterInNeither(pbp_df[corsi_events[i]])

ZeroStat == [CF |-> 0, CA |-> 0, TOI_events |-> 0]

StatOf(stats, p) ==
    IF Has(stats, p)
    THEN LET i == CHOOSE i \in 1..Len(stats) : stats[i].playerId = p
         IN  [CF |-> stats[i].CF, CA |-> stats[i].CA,
              TOI_events |-> stats[i].TOI_events]
    ELSE ZeroStat

AllPlayers ==
    {shift_data[i].playerId : i \in 1..Len(shift_data)}
      \cup {player_stats[i].playerId : i \in 1..Len(player_stats)}

ShooterSide(event) ==
    IF event.shootingPlayerId \in PlayersIn(event.homePlayersOnIce)
    THEN "home" ELSE "away"

CreditedOnce(before, after, for_) ==
    /\ after.TOI_events = before.TOI_events + 1
    /\ after.CF = before.CF + (IF for_ THEN 1 ELSE 0)
    /\ after.CA = before.CA + (IF for_ THEN 0 ELSE 1)

\* C9: the step of a kept event whose shooting team is determined adds
\* exactly 1 to the attempts of every player on either on-ice list, 1 to CF
\* on the shooting side and 1 to CA on the other side, starting from zero
\* for a new player, and changes no other player.
C9_OneAttemptPerPlayer ==
    [][(Processing /\ ~ShooterAbsent(CurrentEvent)
          /\ ~ShooterInNeither(CurrentEvent))
         => \A p \in AllPlayers :
              LET before == StatOf(player_stats, p)
                  after == StatOf(player_stats', p)
                  home == PlayersIn(CurrentEvent.homePlayersOnIce)
                  away == PlayersIn(CurrentEvent.awayPlayersOnIce)
              IN  IF p \in home
                  THEN CreditedOnce(before, after,
                                    ShooterSide(CurrentEvent) = "home")
                  ELSE IF p \in away
                  THEN CreditedOnce(before, after,
                                    ShooterSide(CurrentEvent) = "away")
                  ELSE after = before]_vars

\* C10: every player record has CF + CA = TOI_events, after any number of
\* events.
C10_Conservation ==
    \A i \in 1..Len(player_stats) :
      player_stats[i].CF + player_stats[i].CA = player_stats[i].TOI_events

\* A player credited both for and against.
C10_Witness ==
    \E i \in 1..Len(player_stats) :
      player_stats[i].CF > 0 /\ player_stats[i].CA > 0

\* The sum of one counter over the records of the players of one team.
RECURSIVE TeamTotal(_, _, _, _)
TeamTotal(stats, team, counter, k) ==
    IF k > Len(stats) THEN 0
    ELSE (IF team_info(shift_data, stats[k].playerId) = team
          THEN stats[k][counter] ELSE 0)
         + TeamTotal(stats, team, counter, k + 1)

\* The totals cancel: what one side was credited for, the other side was
\* credited against.
ZeroSumTotals ==
    /\ TeamTotal(player_stats, home_team, "CF", 1)
         = TeamTotal(player_stats, away_team, "CA", 1)
    /\ TeamTotal(player_stats, away_team, "CF", 1)
         = TeamTotal(player_stats, home_team, "CA", 1)

\* One aggregated event gives +1 CF to every player of the side for_ and
\* +1 CA to every player of the side against.
OneForOneAgainst(for_, against) ==
    /\ \A p \in for_ :
         StatOf(player_stats', p).CF = StatOf(player_stats, p).CF + 1
    /\ \A p \in against :
         StatOf(player_stats', p).CA = StatOf(player_stats, p).CA + 1

\* C11: the total CF of the home players equals the total CA of the away
\* players and the total CF of the away players equals the total CA of the
\* home players, after any number of events; and the step of an event that
\* is aggregated gives +1 CF to every on-ice player of exactly one side and
\* +1 CA to every on-ice player of the other side.
C11_ZeroSum ==
    /\ []ZeroSumTotals
    /\ [][(Processing /\ ~ShooterAbsent(CurrentEvent)
             /\ ~ShooterInNeither(CurrentEvent))
            => LET home == PlayersIn(CurrentEvent.homePlayersOnIce)
                   away == PlayersIn(CurrentEvent.awayPlayersOnIce)
               IN  IF ShooterSide(CurrentEvent) = "home"
                   THEN OneForOneAgainst(home, away)
                   ELSE OneForOneAgainst(away, home)]_vars

\* Both sides have been credited for and against.
ZeroSumReached ==
    /\ pc = "aggregated"
    /\ TeamTotal(player_stats, home_team, "CF", 1) > 0
    /\ TeamTotal(player_stats, away_team, "CF", 1) > 0

Finalized == pc \in {"finalized", "returned"}

Abs(x) == IF x < 0 THEN -x ELSE x

\* pct, in tenths of a percent, is cf / total * 100 rounded to one decimal:
\* no tenth is nearer to the quotient.
RoundedPercentage(pct, cf, total) ==
    2 * Abs(pct * total - cf * 1000) <= total

\* C12: finalization gives every player record the percentage
\* CF / (CF + CA) * 100 rounded to one decimal, and 0 when CF + CA = 0; the
\* finalization step never fails; and the percentages are written once,
\* after the last event, from the final CF and CA.
C12_Finalization ==
    /\ [](Finalized =>
            /\ Len(results) = Len(player_stats)
            /\ \A i \in 1..Len(results) :
                 LET cf == player_stats[i].CF
                     ca == player_stats[i].CA
                 IN  /\ results[i].playerId = player_stats[i].playerId
                     /\ results[i].CF = cf
                     /\ results[i].CA = ca
                     /\ IF cf + ca = 0
                        THEN results[i].Corsi_pct = 0
                        ELSE RoundedPercentage(results[i].Corsi_pct, cf,
                                               cf + ca))
    /\ [][pc = "aggregated" => pc' = "finalized"]_vars
    /\ [][results' # results =>
            /\ pc = "aggregated"
            /\ ev > Len(corsi_events)
            /\ results = <<>>]_vars
    /\ [][Finalized => player_stats' = player_stats]_vars

\* Finalized records with percentages that are not whole tenths before
\* rounding: a player with CF 2 and CA 1 has 66.7 and one with CF 1 and
\* CA 2 has 33.3.
C12_Witness ==
    /\ pc = "finalized"
    /\ \E i \in 1..Len(results) :
         /\ results[i].CF = 2
         /\ results[i].CA = 1
         /\ results[i].Corsi_pct = 667
    /\ \E i \in 1..Len(results) :
         /\ results[i].CF = 1
         /\ results[i].CA = 2
         /\ results[i].Corsi_pct = 333

\* The place of a player in the aggregation pass: the index of the
\* player's record in player_stats.
FirstSighting(p) ==
    CHOOSE i \in 1..Len(player_stats) : player_stats[i].playerId = p

NonIncreasing ==
    \A i, j \in 1..Len(corsi_df) :
      i < j => corsi_df[i].Corsi_pct >= corsi_df[j].Corsi_pct

EveryPlayerOnce ==
    /\ Len(corsi_df) = Len(player_stats)
    /\ \A k \in 1..Len(player_stats) :
         Cardinality({i \in 1..Len(corsi_df) :
                        corsi_df[i].playerId = player_stats[k].playerId}) = 1
    /\ \A i \in 1..Len(corsi_df) :
         /\ Has(player_stats, corsi_df[i].playerId)
         /\ corsi_df[i].Corsi_pct
              = results[FirstSighting(corsi_df[i].playerId)].Corsi_pct

TiesInOrderOfSighting ==
    \A i, j \in 1..Len(corsi_df) :
      (i < j /\ corsi_df[i].Corsi_pct = corsi_df[j].Corsi_pct)
        => FirstSighting(corsi_df[i].playerId)
             < FirstSighting(corsi_df[j].playerId)

\* C13 as stated: the returned frame is stable-sorted by percentage
\* descending: percentages are non-increasing, every accumulated player
\* appears exactly once, and players of equal percentage are in the order
\* of their first sighting in the aggregation pass.
C13_StableSorted ==
    pc = "returned" =>
      NonIncreasing /\ EveryPlayerOnce /\ TiesInOrderOfSighting

\* C13 amended: a returned frame has non-increasing percentages and every
\* accumulated player exactly once, with the percentage of the player's
\* finalized record; the order among equal percentages is not fixed.
C13_Sorted ==
    pc = "returned" => NonIncreasing /\ EveryPlayerOnce

\* A returned frame with different percentages and with two players of
\* equal percentage, the later sighted one first.
C13_Witness ==
    /\ pc = "returned"
    /\ \E i, j \in 1..Len(corsi_df) :
         corsi_df[i].Corsi_pct > corsi_df[j].Corsi_pct
    /\ \E i, j \in 1..Len(corsi_df) :
         /\ i < j
         /\ corsi_df[i].Corsi_pct = corsi_df[j].Corsi_pct
         /\ FirstSighting(corsi_df[i].playerId)
              > FirstSighting(corsi_df[j].playerId)

\* The kept events, in the order of the pass.
KeptEvents == [i \in 1..Len(corsi_events) |-> pbp_df[corsi_events[i]]]

\* The per-player counters of a player_stats: CF, CA and attempts of every
\* player, zero for a player without record.
Counters(stats) == [p \in AllPlayers |-> StatOf(stats, p)]

\* Two counter tables added player by player.
Merge(a, b) ==
    [p \in AllPlayers |->
       [CF |-> a[p].CF + b[p].CF,
        CA |-> a[p].CA + b[p].CA,
        TOI_events |-> a[p].TOI_events + b[p].TOI_events]]

\* The events at the positions of shard, in their order.
RECURSIVE Pick(_, _, _)
Pick(events, shard, k) ==
    IF k > Len(events) THEN <<>>
    ELSE (IF k \in shard THEN <<events[k]>> ELSE <<>>)
         \o Pick(events, shard, k + 1)

\* C14: for the kept events of a pass, every split of the positions into
\* two shards, each accumulated on its own from empty statistics and the
\* counters added per player, gives the counters of the one forward pass;
\* and so does the pass over the events in any other order.
C14_ShardedReduction ==
    pc = "aggregated" =>
      LET n == Len(corsi_events)
          whole == Counters(player_stats)
      IN  /\ \A shard \in SUBSET (1..n) :
               Merge(Counters(accumulate(Pick(KeptEvents, shard, 1), 1, <<>>)),
                     Counters(accumulate(Pick(KeptEvents, (1..n) \ shard, 1),
                                         1, <<>>)))
                 = whole
          /\ \A order \in Permutations(1..n) :
               Counters(accumulate([i \in 1..n |-> KeptEvents[order[i]]],
                                   1, <<>>))
                 = whole

\* A pass over three kept events that credited both sides for and against,
\* and whose events taken backwards leave player_stats in another order of
\* first sighting.
C14_Witness ==
    /\ pc = "aggregated"
    /\ Len(corsi_events) = 3
    /\ \E i, j \in 1..Len(player_stats) :
         /\ player_stats[i].CF > 0 /\ player_stats[i].CA > 0
         /\ player_stats[j].TOI_events > player_stats[i].TOI_events
    /\ accumulate([i \in 1..3 |-> KeptEvents[4 - i]], 1, <<>>) # player_stats

----------------------------------------------------------------------------
(* Properties of fetch_nhl_data and fetch_shift_data (checked under        *)
(* SpecFetch).                                                             *)

Returned == pc = "returned"

Succeeded(i) == requests[i].outcome = "ok"

NoneSucceeded == \A i \in 1..Len(requests) : ~Succeeded(i)

\* The call is over after at most max_retries requests (ShiftAttempts for
\* fetch_shift_data).
BoundedRequests == Len(requests) <= Attempts(fetcher, max_retries)

\* A request is followed by another one only if it ended in a
\* ConnectionError.
RetriesFollowConnectionErrors ==
    \A i \in 1..(Len(requests) - 1) : requests[i].outcome \in ConnectionErrors

\* The sleep before the retry that follows attempt i - 1 is 2^(i - 1)
\* seconds, every retry has had its sleep when it is made, and no sleep
\* follows the last request.
BackoffBeforeRetries ==
    /\ \A i \in 1..Len(slept) : slept[i] = 2 ^ (i - 1)
    /\ pc = "try" => Len(slept) = Len(requests)
    /\ Len(slept) <= Len(requests)
    /\ (Returned /\ requests # <<>>) => Len(slept) = Len(requests) - 1

\* The value returned is the payload of the successful response, and None
\* exactly when no request succeeded.
ReturnsFirstSuccess ==
    Returned =>
      /\ ret.tag = "None" <=> NoneSucceeded
      /\ ~NoneSucceeded =>
           /\ Succeeded(Len(requests))
           /\ ret = [tag |-> "value",
                     val |-> Payload(fetcher, requests[Len(requests)].body)]

\* C15: a call ends, after at most max_retries requests (3 for
\* fetch_shift_data); it returns the payload of the first successful
\* response and makes no request after it; it makes another request only
\* after a ConnectionError and while attempts remain, after a sleep of
\* 2^attempt seconds, and does not sleep after the last attempt; any other
\* request error ends the loop without retry; and it returns None exactly
\* when no request succeeded.
C15_BoundedRetry ==
    /\ <>Returned
    /\ [](BoundedRequests /\ RetriesFollowConnectionErrors
            /\ BackoffBeforeRetries /\ ReturnsFirstSuccess)
    /\ [][requests' # requests =>
            /\ NoneSucceeded
            /\ ~Returned
            /\ Len(requests) < Attempts(fetcher, max_retries)]_vars
    /\ [][pc = "except_RequestException" =>
            (pc' = "after_loop" /\ requests' = requests /\ slept' = slept)]_vars

\* A call that slept 1 and 2 seconds between three requests and returned
\* the payload of the third.
C15_Witness ==
    /\ Returned
    /\ Len(requests) = 3
    /\ slept = <<1, 2>>
    /\ ret.tag = "value"
    /\ requests[1].outcome \in ConnectionErrors
    /\ requests[2].outcome \in ConnectionErrors

\* A call that gave up after its last attempt ended in a ConnectionError,
\* and one that another request error ended before its attempts were used.
FetchGaveUp ==
    /\ Returned
    /\ ret.tag = "None"
    /\ Len(requests) = Attempts(fetcher, max_retries)
    /\ Len(requests) > 0
    /\ requests[Len(requests)].outcome \in ConnectionErrors

FetchBroke ==
    /\ Returned
    /\ ret.tag = "None"
    /\ Len(requests) = 2
    /\ Len(requests) < Attempts(fetcher, max_retries)
    /\ requests[2].outcome \in OtherRequestErrors

====
